---------------------------- MODULE Spec2Model ----------------------------
(***************************************************************************)
(* MayaCmd.py: the Deadline plugin that drives Maya's command line         *)
(* renderer.  The model covers the output-stream engine: the registry of   *)
(* stdout handlers built by InitializeProcess, the dispatch of one output  *)
(* line to the first registered pattern that matches it, the handlers and  *)
(* the plugin fields they update, and CheckExitCode.                       *)
(*                                                                         *)
(* An output line is a set of text fragments (the literal pieces the       *)
(* registered regular expressions and the substring searches look for)     *)
(* with the numbers its capture groups yield.  A fragment whose text       *)
(* contains another fragment's text brings that fragment with it (Within). *)
(* The order of the fragments on the line is not modelled.  Python floats  *)
(* are exact rationals <<numerator, denominator>>.                         *)
(***************************************************************************)
EXTENDS Integers, Sequences, FiniteSets, TLC

VARIABLES
    Renderer,               \* plugin info entry "Renderer", lower-cased
    StartFrame,             \* host: GetStartFrame()
    EndFrame,               \* host: GetEndFrame()
    phase,                  \* where the task is
    FinishedFrameCount,
    PreviousFinishedFrame,  \* -1 stands for ""
    SkipNextFrame,
    vrayRenderingImage,
    CausticCurrentFrame,
    CausticTotalPasses,
    initialFrame,           \* <<>> stands for None, <<f>> for the frame f
    IgnoreError211,
    FumeFX,                 \* the six FumeFX* fields
    progress,               \* host: last value given to SetProgress
    statusMessage,          \* host: last value given to SetStatusMessage
    failReason,             \* host: the reason given to FailRender
    line,                   \* the output line dispatched last
    fired,                  \* the handler that ran for it, "none" if none
    calls,                  \* the host calls that handler made
    cfg,                    \* the job entries that handler read
    log,                    \* the lines dispatched in this task, in order
    nTasks,                 \* tasks started on this plugin instance
    exitCode                \* the exit code handed to CheckExitCode

plugin == <<FinishedFrameCount, PreviousFinishedFrame, SkipNextFrame,
            vrayRenderingImage, CausticCurrentFrame, CausticTotalPasses,
            initialFrame, FumeFX>>
host   == <<progress, statusMessage, failReason>>
job    == <<Renderer, StartFrame, EndFrame>>
obs    == <<line, fired, calls, cfg>>
vars   == <<job, phase, plugin, IgnoreError211, host, obs, log, nTasks,
            exitCode>>

---------------------------------------------------------------------------
(* Bounds of the model. *)
MaxLines == 1           \* output lines of a task, any line of the catalogue
MaxExitLines == 2       \* output lines of a task that runs to its exit
MaxKindLines == 2       \* output lines of a task, one kind for each pattern
MaxChunkLines == 3      \* "Finished Rendering" lines of a task
MaxCompletions == 10    \* "Finished Rendering" lines without a frame number
MaxMentalRayLines == 4  \* Mental Ray lines of a task
MaxVrayLines == 3       \* V-Ray lines of a task
MaxSubFrameLines == 3   \* percent and completion lines of a task
MaxCausticLines == 3    \* Caustic Visualizer lines of a task
MaxFrame == 3           \* largest frame number printed on a line
MaxStart == 2           \* largest start frame of a task
MaxSpan == 2            \* largest EndFrame - StartFrame
MaxTasks == 2           \* tasks run one after another on a plugin instance

---------------------------------------------------------------------------
(* Arithmetic: Python's // on integers, and exact rationals for floats. *)

\* Python's floor division x // y, y # 0.
FloorDiv(x, y) ==
    IF y > 0 THEN x \div y ELSE (-x) \div (-y)

RECURSIVE Gcd(_, _)
Gcd(x, y) ==
    IF y = 0 THEN x ELSE Gcd(y, x % y)

Abs(x) == IF x < 0 THEN -x ELSE x

\* The rational x / y in lowest terms with a positive denominator, y # 0.
Rat(x, y) ==
    LET g == Gcd(Abs(x), Abs(y))
        s == IF y < 0 THEN -1 ELSE 1
    IN  <<(s * x) \div g, (s * y) \div g>>

RatAdd(p, q) == Rat(p[1] * q[2] + q[1] * p[2], p[2] * q[2])
RatDiv(p, q) == Rat(p[1] * q[2], p[2] * q[1])
FromInt(x) == <<x, 1>>

---------------------------------------------------------------------------
(* Text fragments and output lines. *)

\* The fragments whose text lies within the text of fragment f, f included.
Within(f) ==
    CASE f = "V-Ray: Render complete" -> {f, "Render complete"}
      [] f = "RIMG : N%" -> {f, "N%"}
      [] f = "V-Ray: N%" -> {f, "N%"}
      [] f = "progr: N.D% rendered" -> {f, "N%"}
      [] f = "progr: N.D% computing final gather points" -> {f, "N%"}
      [] f = "[PROGRESS] TURTLE rendering frame 100.00" ->
            {f, "[PROGRESS] TURTLE rendering frame N.D"}
      [] f = "Warning: " -> {f, "Warning:"}
      [] f \in {"Error: Camera",
                "Error: Failed to open IFF file for reading",
                "Error: An exception has occurred, rendering aborted.",
                "Error: Scene was not loaded properly, please check the scene name",
                "Error: Graphics card capabilities are insufficient for rendering.",
                "Error: The attribute ",
                "Error: (Mayatomr) : mental ray has stopped with errors, see the log",
                "Error: (Mayatomr.Export) : mental ray startup failed with errors",
                "Error: rman Fatal:",
                "Error: There was a fatal error rendering the scene.",
                "Error: OctaneRender is not activated!",
                "Error: R12001"} -> {f, "Error: "}
      [] f \in {"Warning: The post-processing failed while attempting to rename file",
                "Warning: (Mayatomr.Scene) : no render camera found, final scene will be incomplete and can't be rendered"} ->
            {f, "Warning: ", "Warning:"}
      [] f = "can't create file (No such file or directory)" ->
            {f, "can't create file"}
      [] OTHER -> {f}

\* The fragments of a line written with the pieces S.
Close(S) == UNION {Within(f) : f \in S}

\* A line: its fragments, the numbers a and b its capture groups yield (digits
\* "a", a decimal "a.b", or two integers), and whether text precedes the
\* first fragment.
Line(S, a, b, lead) == [frags |-> Close(S), a |-> a, b |-> b, lead |-> lead]

NoLine == Line({}, 0, 0, FALSE)

---------------------------------------------------------------------------
(* The registry of stdout handlers. *)

\* One AddStdoutHandlerCallback(pat).HandleCallback += handler.
Rule(pat, handler) == [pat |-> pat, handler |-> handler]

\* What a registered pattern needs of a line: one of these sets of fragments.
\* A pattern is named after the fragment it looks for unless listed here.
Needs(pat) ==
    CASE pat = "Finished Rendering.*\\.([0-9]+)\\.[^\\.]+" ->
            {{"Finished Rendering", ".N.ext"}}
      [] pat = "Constructing shading groups|Rendering current frame" ->
            {{"Constructing shading groups"}, {"Rendering current frame"}}
      [] pat = ".*Error: .*|.*Warning: .*" -> {{"Error: "}, {"Warning: "}}
      [] OTHER -> {{pat}}

\* The pattern matches somewhere in the line.
Matches(pat, l) == \E alt \in Needs(pat) : alt \subseteq l.frags

\* Patterns written with .* reach to the ends of the line; the others match
\* their own text.
WholeLine(pat) ==
    pat \in {".*Error: .*|.*Warning: .*", "Finished Rendering",
             "CUDA_ERROR_UNKNOWN", "Failed to init the CUDA driver API",
             "The system does not support the required CUDA compute capabilities",
             "[PROGRESS] TURTLE rendering frame 100.00", "Render complete",
             "[PROGRESS] TURTLE rendering frame N.D", "3DL ERROR ",
             "FLEXlm error: ", "Usage: Render ", "V-Ray error: ",
             "[PROGRESS] Percentage of rendering done: "}

\* GetRegexMatch(0): the text the pattern matched.
Match0(pat, l) ==
    IF WholeLine(pat) THEN l
    ELSE [l EXCEPT !.frags =
            Close(CHOOSE alt \in Needs(pat) : alt \subseteq l.frags),
            !.lead = FALSE]

\* InitializeProcess, lines 96-143: the rules registered first.
EarlyRules(renderer) ==
    <<Rule("FumeFX: Starting simulation", "HandleFumeFXProgress"),
      Rule("FumeFX: Frame: ", "HandleFumeFXProgress"),
      Rule("FumeFX: Memory used: ", "HandleFumeFXProgress"),
      Rule("FumeFX: Frame Time: ", "HandleFumeFXProgress"),
      Rule("FumeFX: Estimated Time: ", "HandleFumeFXProgress"),
      Rule("FLEXlm error: ", "HandleFatalError"),
      Rule("Maya: License was not obtained", "HandleFatalError"),
      Rule("Usage: Render ", "HandleUsageError"),
      Rule("Finished Rendering.*\\.([0-9]+)\\.[^\\.]+", "HandleChunkedProgress1"),
      Rule("Finished Rendering", "HandleChunkedProgress2"),
      Rule("CUDA_ERROR_UNKNOWN", "HandleFatalError"),
      Rule("Failed to init the CUDA driver API", "HandleFatalError"),
      Rule("The system does not support the required CUDA compute capabilities",
           "HandleFatalError"),
      Rule("Constructing shading groups|Rendering current frame",
           "HandleStatusMessage")>>
    \o (IF renderer = "redshift"
        THEN <<Rule("redshiftSelectCudaDevices.mel line N: Invalid device id: N",
                    "HandleRedshiftGPUAffinityError")>>
        ELSE <<>>)
    \o <<Rule(".*Error: .*|.*Warning: .*", "HandleErrorMessage"),
         Rule("progr: N.D% rendered", "HandleMentalRayProgress"),
         Rule("progr: N.D% computing final gather points", "HandleMentalRayGathering"),
         Rule("progr: writing image file (frame N)", "HandleMentalRayWritingFrame"),
         Rule("progr: rendering finished", "HandleMentalRayComplete"),
         Rule("| render done", "HandleProgressMessage2"),
         Rule("[PROGRESS] Completed fram", "HandleProgressMessage2"),
         Rule("[PROGRESS] TURTLE rendering frame 100.00", "HandleProgressMessage2"),
         Rule("Render complete", "HandleProgressMessage2"),
         Rule("[PROGRESS] Percentage of rendering done: ", "HandleProgressMessage3"),
         Rule("[PROGRESS] TURTLE rendering frame N.D", "HandleProgressMessage3"),
         Rule("RIMG : N%", "HandleProgressMessage3")>>

\* Mutant: the Caustic rules are registered for every renderer.
CausticRules_Always(renderer) ==
    <<Rule("Executing frame N", "HandleCausticVisualizerCurrentFrame"),
      Rule("Rendering N passes", "HandleCausticVisualizerTotalPasses"),
      Rule("Rendered to pass N", "HandleCausticVisualizerCurrentPass")>>

\* InitializeProcess, lines 177-180.
CausticRules(renderer) ==
    IF renderer = "causticvisualizer"
    THEN <<Rule("Executing frame N", "HandleCausticVisualizerCurrentFrame"),
           Rule("Rendering N passes", "HandleCausticVisualizerTotalPasses"),
           Rule("Rendered to pass N", "HandleCausticVisualizerCurrentPass")>>
    ELSE <<>>

\* InitializeProcess, lines 146-185: the rules of the renderers' own blocks.
RendererRules(renderer) ==
    (IF renderer = "vray" \/ renderer = "vrayexport"
        THEN <<Rule("V-Ray error: ", "HandleFatalError"),
               Rule("V-Ray: Building light cache", "HandleVrayMessage"),
               Rule("V-Ray: Prepass N of N", "HandleVrayMessage"),
               Rule("V-Ray: Rendering image", "HandleVrayMessage"),
               Rule("V-Ray: N%", "HandleVrayProgress"),
               Rule("V-Ray: N %", "HandleVrayProgress"),
               Rule("N % completed", "HandleVrayProgress"),
               Rule("V-Ray: Total frame time", "HandleVrayFrameComplete"),
               Rule("V-Ray: Updating frame at time N", "HandleVrayExportProgress"),
               Rule("V-Ray: Render complete", "HandleVrayExportComplete")>>
        ELSE <<>>)
    \o (IF renderer = "renderman" \/ renderer = "rendermanris"
           \/ renderer = "rendermanexport"
        THEN <<Rule("rfm Notice: Rendering at N", "HandleRendermanProgress")>>
        ELSE <<>>)
    \o (IF renderer = "3delight"
        THEN <<Rule("3DL ERROR ", "HandleFatalError"),
               Rule("[N N N]", "HandlePointCloudOutput")>>
        ELSE <<>>)
    \o (IF renderer = "arnold" \/ renderer = "arnoldexport"
        THEN <<Rule("Plug-in, \"mtoa\", was not found on MAYA_PLUG_IN_PATH",
                    "HandleFatalError"),
               Rule("[mtoa] Failed batch render", "HandleFatalError")>>
        ELSE <<>>)
    \o (IF renderer = "octanerender"
        THEN <<Rule("Octane: starting animation of frame", "HandleOctaneStartFrame"),
               Rule("Octane: Refreshed image, N samples per pixel of N",
                    "HandleOctaneProgress")>>
        ELSE <<>>)
    \o CausticRules(renderer)
    \o (IF renderer = "redshift"
        THEN <<Rule("Frame rendering aborted.", "HandleFatalError"),
               Rule("Rendering was internally aborted", "HandleFatalError"),
               Rule("Cannot find procedure \"rsPreference\"", "HandleFatalError")>>
        ELSE <<>>)

\* InitializeProcess, lines 187-188: the generic percent rules.
PercentRules ==
    <<Rule("[PROGRESS] N percent", "HandleProgressMessage1"),
      Rule("N%", "HandleProgressMessage1")>>

\* Mutant: the generic percent rules are registered first.
Registry_PercentFirst(renderer) ==
    PercentRules \o EarlyRules(renderer) \o RendererRules(renderer)

\* InitializeProcess, lines 95-188: the handlers in registration order.
Registry(renderer) ==
    EarlyRules(renderer) \o RendererRules(renderer) \o PercentRules

\* The host's dispatch of one line: the first registered rule, in
\* registration order, whose pattern matches; NoRule if none does.
NoRule == Rule("", "none")

\* Mutant: the last matching rule wins.
FirstMatch_Last(reg, l) ==
    LET hit == {i \in 1..Len(reg) : Matches(reg[i].pat, l)}
    IN  IF hit = {} THEN NoRule
        ELSE reg[CHOOSE i \in hit : \A j \in hit : i >= j]

FirstMatch(reg, l) ==
    LET hit == {i \in 1..Len(reg) : Matches(reg[i].pat, l)}
    IN  IF hit = {} THEN NoRule
        ELSE reg[CHOOSE i \in hit : \A j \in hit : i <= j]

---------------------------------------------------------------------------
(* Host calls made by the handlers. *)

\* A text handed to the host: its fragments and the numbers printed in it.
Text(frags, nums) == [text |-> frags, n |-> nums]

NoText == Text({}, <<>>)

TextOf(m) == Text(m.frags, <<m.a, m.b>>)

Unread == [StrictErrorChecking |-> "unread", SuppressWarnings |-> "unread"]

OnOff(flag) == IF flag THEN "on" ELSE "off"

\* Number of frames of the task, as every handler computes it.
FrameSpan == EndFrame - StartFrame + 1

\* The handler returns normally, having called SetProgress(p).
SetProgress(p) ==
    /\ progress' = p
    /\ calls' = {"SetProgress"}
    /\ cfg' = Unread
    /\ UNCHANGED <<statusMessage, failReason, phase>>

\* The handler returns normally, having called SetStatusMessage(t).
SetStatusMessage(t) ==
    /\ statusMessage' = t
    /\ calls' = {"SetStatusMessage"}
    /\ cfg' = Unread
    /\ UNCHANGED <<progress, failReason, phase>>

\* The handler returns normally, having called both.
SetProgressAndStatus(p, t) ==
    /\ progress' = p
    /\ statusMessage' = t
    /\ calls' = {"SetProgress", "SetStatusMessage"}
    /\ cfg' = Unread
    /\ UNCHANGED <<failReason, phase>>

\* The handler returns normally without a host call.
Quiet ==
    /\ calls' = {}
    /\ cfg' = Unread
    /\ UNCHANGED <<host, phase>>

\* FailRender(reason): the host raises out of the handler and fails the task.
FailRender(reason) ==
    /\ failReason' = reason
    /\ phase' = "failed"
    /\ calls' = {"FailRender"}
    /\ UNCHANGED <<progress, statusMessage>>

\* The handler raises a Python error; the host ends the task with it.
Raise(what) ==
    /\ failReason' = Text({what}, <<>>)
    /\ phase' = "error"
    /\ calls' = {}
    /\ cfg' = Unread
    /\ UNCHANGED <<progress, statusMessage>>

---------------------------------------------------------------------------
(* The handlers.  m is the rule that matched, l the line. *)

\* Mutant: the reason is the whole line, not the matched text.
HandleFatalError_WholeLine(m, l) ==
    /\ FailRender(TextOf(l))
    /\ cfg' = Unread
    /\ UNCHANGED plugin

HandleFatalError(m, l) ==
    /\ FailRender(TextOf(Match0(m.pat, l)))
    /\ cfg' = Unread
    /\ UNCHANGED plugin

HandlePointCloudOutput(m, l) ==
    /\ calls' = {"SuppressThisLine"}
    /\ cfg' = Unread
    /\ UNCHANGED <<plugin, host, phase>>

\* The reason carries the previous output line.
HandleUsageError(m, l) ==
    /\ FailRender(Text({"Bad command line arguments: ", "Maya Error: "}
                        \cup line.frags, <<line.a, line.b>>))
    /\ cfg' = Unread
    /\ UNCHANGED plugin

\* Mutant: the frame is counted from StartFrame without the + 1.
ChunkedProgress1Value_OffByOne(f) ==
    FromInt(FloorDiv(100 * (f - StartFrame), FrameSpan))

ChunkedProgress1Value(f) ==
    FromInt(FloorDiv(100 * (f - StartFrame + 1), FrameSpan))

\* Mutant: a task without frames is reported complete.
HandleChunkedProgress1_EmptyDone(m, l) ==
    /\ IF FrameSpan # 0
       THEN SetProgress(ChunkedProgress1Value(l.a))
       ELSE SetProgress(FromInt(100))
    /\ UNCHANGED plugin

\* Mutant: the frame is counted as well, as the generic handler counts it.
HandleChunkedProgress1_AlsoCounts(m, l) ==
    /\ FinishedFrameCount' = FinishedFrameCount + 1
    /\ IF FrameSpan # 0
       THEN SetProgress(ChunkedProgress1Value(l.a))
       ELSE Quiet
    /\ UNCHANGED <<PreviousFinishedFrame, SkipNextFrame, vrayRenderingImage,
                   CausticCurrentFrame, CausticTotalPasses, initialFrame, FumeFX>>

HandleChunkedProgress1(m, l) ==
    /\ IF FrameSpan # 0
       THEN SetProgress(ChunkedProgress1Value(l.a))
       ELSE Quiet
    /\ UNCHANGED plugin

\* Mutant: integer division, as in HandleChunkedProgress1.
HandleChunkedProgress2_Floor(m, l) ==
    /\ FinishedFrameCount' = FinishedFrameCount + 1
    /\ IF FrameSpan # 0
       THEN SetProgress(FromInt(FloorDiv(100 * FinishedFrameCount', FrameSpan)))
       ELSE Quiet
    /\ UNCHANGED <<PreviousFinishedFrame, SkipNextFrame, vrayRenderingImage,
                   CausticCurrentFrame, CausticTotalPasses, initialFrame, FumeFX>>

HandleChunkedProgress2(m, l) ==
    /\ FinishedFrameCount' = FinishedFrameCount + 1
    /\ IF FrameSpan # 0
       THEN SetProgress(Rat(100 * FinishedFrameCount', FrameSpan))
       ELSE Quiet
    /\ UNCHANGED <<PreviousFinishedFrame, SkipNextFrame, vrayRenderingImage,
                   CausticCurrentFrame, CausticTotalPasses, initialFrame, FumeFX>>

HandleStatusMessage(m, l) ==
    /\ SetStatusMessage(TextOf(Match0(m.pat, l)))
    /\ UNCHANGED plugin

\* HandleErrorMessage, lines 1125-1190: the known-fatal texts, in the order
\* they are tried; an entry hits when all its texts are in the message.
FatalList ==
    <<{"could not get a license"},
      {"This scene does not have any renderable cameras"},
      {"Error: Camera", "does not exist"},
      {"Warning: The post-processing failed while attempting to rename file"},
      {"Error: Failed to open IFF file for reading"},
      {"Error: An exception has occurred, rendering aborted."},
      {"Cannot open project"},
      {"Could not open file. :"},
      {"Error reading file. :"},
      {"Error: Scene was not loaded properly, please check the scene name"},
      {"Error: Graphics card capabilities are insufficient for rendering."},
      {"Error: The attribute ",
       "was locked in a referenced file, and cannot be unlocked."},
      {"Not enough storage is available to process this command."},
      {"Error: (Mayatomr) : mental ray has stopped with errors, see the log"},
      {"Warning: (Mayatomr.Scene) : no render camera found, final scene will be incomplete and can't be rendered"},
      {"mental ray: out of memory"},
      {"The specified module could not be found."},
      {"Error: (Mayatomr.Export) : mental ray startup failed with errors"},
      {"Number of arguments on call to preLayerScript does not match number of parameters in procedure definition."},
      {"Error: rman Fatal:"},
      {"rman Error:"},
      {"Error: There was a fatal error rendering the scene."},
      {"Could not obtain a license"},
      {"Could not read V-Ray environment variable"},
      {"error 101003:", "can't create file"},
      {"can't create file (No such file or directory)"},
      {"Fatal Error:"},
      {"Error writing render region to raw image file."},
      {"Error: OctaneRender is not activated!"},
      {"Error: R12001"}>>

\* Mutant: one text of a two-text entry is enough for a hit.
IgnoreError_AnyText(errorMessage) ==
    ~ \E i \in 1..Len(FatalList) : FatalList[i] \cap errorMessage.frags # {}

\* ignoreError after the if/elif chain.
IgnoreError(errorMessage) ==
    ~ \E i \in 1..Len(FatalList) : FatalList[i] \subseteq errorMessage.frags

\* The branch taken once StrictErrorChecking has been read as on.
StrictBranch(errorMessage) ==
    IF IgnoreError(errorMessage)
    THEN \E suppress \in BOOLEAN :
            /\ cfg' = [StrictErrorChecking |-> "on",
                       SuppressWarnings |-> OnOff(suppress)]
            /\ calls' = IF suppress /\ "Warning:" \in errorMessage.frags
                        THEN {"SuppressThisLine"}
                        ELSE {"LogWarning: unrecognized error or warning"}
            /\ UNCHANGED <<host, phase>>
    ELSE /\ cfg' = [StrictErrorChecking |-> "on", SuppressWarnings |-> "unread"]
         /\ FailRender(Text({"Strict error checking on, caught the following error or warning."}
                             \cup errorMessage.frags,
                            <<errorMessage.a, errorMessage.b>>))

\* Mutant: a license failure is fatal even with StrictErrorChecking off.
HandleErrorMessage_LicenseFatal(m, l) ==
    LET errorMessage == Match0(m.pat, l)
    IN  /\ UNCHANGED plugin
        /\ IF "Cannot load scene" \in errorMessage.frags
           THEN /\ FailRender(TextOf(errorMessage))
                /\ cfg' = Unread
           ELSE \E strict \in BOOLEAN :
                   IF ~strict
                   THEN /\ cfg' = [StrictErrorChecking |-> "off",
                                   SuppressWarnings |-> "unread"]
                        /\ IF "could not get a license" \in errorMessage.frags
                           THEN FailRender(TextOf(errorMessage))
                           ELSE /\ calls' = {"LogWarning: Strict error checking off"}
                                /\ UNCHANGED <<host, phase>>
                   ELSE StrictBranch(errorMessage)

\* Mutant: the known-fatal texts are checked whatever StrictErrorChecking says.
HandleErrorMessage_AlwaysStrict(m, l) ==
    LET errorMessage == Match0(m.pat, l)
    IN  /\ UNCHANGED plugin
        /\ IF "Cannot load scene" \in errorMessage.frags
           THEN /\ FailRender(TextOf(errorMessage))
                /\ cfg' = Unread
           ELSE \E strict \in BOOLEAN :
                   IF ~strict /\ IgnoreError(errorMessage)
                   THEN /\ cfg' = [StrictErrorChecking |-> "off",
                                   SuppressWarnings |-> "unread"]
                        /\ calls' = {"LogWarning: Strict error checking off"}
                        /\ UNCHANGED <<host, phase>>
                   ELSE /\ FailRender(TextOf(errorMessage))
                        /\ cfg' = [StrictErrorChecking |-> OnOff(strict),
                                   SuppressWarnings |-> "unread"]

\* Mutant: "Cannot load scene" is looked for in the strict branch only.
HandleErrorMessage_SceneCheckLate(m, l) ==
    LET errorMessage == Match0(m.pat, l)
    IN  /\ UNCHANGED plugin
        /\ \E strict \in BOOLEAN :
              IF ~strict
              THEN /\ cfg' = [StrictErrorChecking |-> "off",
                              SuppressWarnings |-> "unread"]
                   /\ calls' = {"LogWarning: Strict error checking off"}
                   /\ UNCHANGED <<host, phase>>
              ELSE IF "Cannot load scene" \in errorMessage.frags
                   THEN /\ FailRender(TextOf(errorMessage))
                        /\ cfg' = [StrictErrorChecking |-> "on",
                                   SuppressWarnings |-> "unread"]
                   ELSE StrictBranch(errorMessage)

HandleErrorMessage(m, l) ==
    LET errorMessage == Match0(m.pat, l)
    IN  /\ UNCHANGED plugin
        /\ IF "Cannot load scene" \in errorMessage.frags
           THEN /\ FailRender(TextOf(errorMessage))
                /\ cfg' = Unread
           ELSE \E strict \in BOOLEAN :
                   IF ~strict
                   THEN /\ cfg' = [StrictErrorChecking |-> "off",
                                   SuppressWarnings |-> "unread"]
                        /\ calls' = {"LogWarning: Strict error checking off"}
                        /\ UNCHANGED <<host, phase>>
                   ELSE StrictBranch(errorMessage)

\* Mutant: the frames already finished are left out.
SubFrameProgress_NoCount(sub) ==
    RatDiv(sub, FromInt(FrameSpan))

SubFrameProgress(sub) ==
    RatDiv(RatAdd(sub, FromInt(FinishedFrameCount * 100)), FromInt(FrameSpan))

HandleProgressMessage1(m, l) ==
    /\ IF FrameSpan # 0
       THEN SetProgress(SubFrameProgress(FromInt(l.a)))
       ELSE Quiet
    /\ UNCHANGED plugin

HandleProgressMessage2(m, l) ==
    /\ FinishedFrameCount' = FinishedFrameCount + 1
    /\ IF FrameSpan # 0
       THEN SetProgress(Rat(FinishedFrameCount' * 100, FrameSpan))
       ELSE Quiet
    /\ UNCHANGED <<PreviousFinishedFrame, SkipNextFrame, vrayRenderingImage,
                   CausticCurrentFrame, CausticTotalPasses, initialFrame, FumeFX>>

\* The decimal "a.b" with one digit after the point.
Decimal(l) == Rat(10 * l.a + l.b, 10)

\* float(GetRegexMatch(1)): the (.*) of "Percentage of rendering done" is the
\* rest of the line, a number only when nothing else follows on the line.
HandleProgressMessage3(m, l) ==
    /\ IF m.pat = "[PROGRESS] Percentage of rendering done: "
       THEN IF l.frags = {m.pat}
            THEN SetProgress(Decimal(l))
            ELSE Raise("ValueError")
       ELSE IF m.pat = "RIMG : N%"
            THEN SetProgress(FromInt(l.a))
            ELSE SetProgress(Decimal(l))
    /\ UNCHANGED plugin

HandleVrayMessage(m, l) ==
    /\ SetStatusMessage(IF m.pat = "V-Ray: Building light cache"
                        THEN Text({"Building light cache."}, <<>>)
                        ELSE TextOf(Match0(m.pat, l)))
    /\ vrayRenderingImage' = IF m.pat = "V-Ray: Rendering image"
                             THEN TRUE
                             ELSE vrayRenderingImage
    /\ UNCHANGED <<FinishedFrameCount, PreviousFinishedFrame, SkipNextFrame,
                   CausticCurrentFrame, CausticTotalPasses, initialFrame, FumeFX>>

\* Mutant: the percent is reported in every phase.
HandleVrayProgress_AnyPhase(m, l) ==
    /\ IF FrameSpan # 0
       THEN SetProgress(SubFrameProgress(FromInt(l.a)))
       ELSE Quiet
    /\ UNCHANGED plugin

HandleVrayProgress(m, l) ==
    /\ IF vrayRenderingImage = TRUE /\ FrameSpan # 0
       THEN SetProgress(SubFrameProgress(FromInt(l.a)))
       ELSE Quiet
    /\ UNCHANGED plugin

HandleVrayFrameComplete(m, l) ==
    /\ IF vrayRenderingImage = TRUE
       THEN /\ FinishedFrameCount' = FinishedFrameCount + 1
            /\ vrayRenderingImage' = FALSE
       ELSE UNCHANGED <<FinishedFrameCount, vrayRenderingImage>>
    /\ Quiet
    /\ UNCHANGED <<PreviousFinishedFrame, SkipNextFrame, CausticCurrentFrame,
                   CausticTotalPasses, initialFrame, FumeFX>>

HandleVrayExportProgress(m, l) ==
    IF Renderer = "vrayexport"
    THEN /\ FinishedFrameCount' = FinishedFrameCount + 1
         /\ IF FrameSpan # 0
            THEN SetProgress(Rat((FinishedFrameCount' - 1) * 100, FrameSpan))
            ELSE Quiet
         /\ UNCHANGED <<PreviousFinishedFrame, SkipNextFrame, vrayRenderingImage,
                        CausticCurrentFrame, CausticTotalPasses, initialFrame,
                        FumeFX>>
    ELSE Quiet /\ UNCHANGED plugin

HandleVrayExportComplete(m, l) ==
    /\ IF Renderer = "vrayexport" THEN SetProgress(FromInt(100)) ELSE Quiet
    /\ UNCHANGED plugin

HandleRendermanProgress(m, l) ==
    LET totalFrames == FrameSpan
        currentFrame == l.a
        first == IF initialFrame = <<>> THEN currentFrame ELSE initialFrame[1]
        normalizedFrame == IF first > 1
                           THEN currentFrame - StartFrame + 1
                           ELSE currentFrame
    IN  /\ IF totalFrames > 1
           THEN /\ initialFrame' = <<first>>
                /\ SetProgressAndStatus(Rat(normalizedFrame * 100, totalFrames),
                                        TextOf(Match0(m.pat, l)))
           ELSE /\ UNCHANGED initialFrame
                /\ SetStatusMessage(TextOf(Match0(m.pat, l)))
        /\ UNCHANGED <<FinishedFrameCount, PreviousFinishedFrame, SkipNextFrame,
                       vrayRenderingImage, CausticCurrentFrame,
                       CausticTotalPasses, FumeFX>>

HandleOctaneStartFrame(m, l) ==
    /\ FinishedFrameCount' = FinishedFrameCount + 1
    /\ Quiet
    /\ UNCHANGED <<PreviousFinishedFrame, SkipNextFrame, vrayRenderingImage,
                   CausticCurrentFrame, CausticTotalPasses, initialFrame, FumeFX>>

\* currSamples is l.a and maxSampes is l.b.
HandleOctaneProgress(m, l) ==
    /\ IF FrameSpan # 0
       THEN IF l.b = 0
            THEN Raise("ZeroDivisionError")
            ELSE SetProgressAndStatus(
                    RatDiv(RatAdd(Rat(l.a * 100, l.b),
                                  FromInt((FinishedFrameCount - 1) * 100)),
                           FromInt(FrameSpan)),
                    TextOf(Match0(m.pat, l)))
       ELSE SetStatusMessage(TextOf(Match0(m.pat, l)))
    /\ UNCHANGED plugin

HandleCausticVisualizerCurrentFrame(m, l) ==
    /\ CausticCurrentFrame' = l.a
    /\ Quiet
    /\ UNCHANGED <<FinishedFrameCount, PreviousFinishedFrame, SkipNextFrame,
                   vrayRenderingImage, CausticTotalPasses, initialFrame, FumeFX>>

HandleCausticVisualizerTotalPasses(m, l) ==
    /\ CausticTotalPasses' = l.a
    /\ Quiet
    /\ UNCHANGED <<FinishedFrameCount, PreviousFinishedFrame, SkipNextFrame,
                   vrayRenderingImage, CausticCurrentFrame, initialFrame, FumeFX>>

\* Mutant: the share of the passes is not rounded down.
HandleCausticVisualizerCurrentPass_Exact(m, l) ==
    LET totalFrameCount == FrameSpan
        causticCurrentPass == l.a
        currentFrameCount == CausticCurrentFrame - StartFrame
    IN  /\ IF CausticTotalPasses > 0 /\ totalFrameCount # 0
           THEN SetProgress(
                   RatDiv(RatAdd(Rat(causticCurrentPass * 100, CausticTotalPasses),
                                 FromInt(currentFrameCount * 100)),
                          FromInt(totalFrameCount)))
           ELSE Quiet
        /\ UNCHANGED plugin

HandleCausticVisualizerCurrentPass(m, l) ==
    LET totalFrameCount == FrameSpan
        causticCurrentPass == l.a
        currentFrameCount == CausticCurrentFrame - StartFrame
    IN  /\ IF CausticTotalPasses > 0 /\ totalFrameCount # 0
           THEN SetProgress(
                   Rat(FloorDiv(causticCurrentPass * 100, CausticTotalPasses)
                         + currentFrameCount * 100,
                       totalFrameCount))
           ELSE Quiet
        /\ UNCHANGED plugin

HandleMentalRayProgress(m, l) ==
    /\ IF FrameSpan # 0
       THEN SetProgressAndStatus(SubFrameProgress(Decimal(l)),
                                 TextOf(Match0(m.pat, l)))
       ELSE Quiet
    /\ UNCHANGED plugin

\* Mutant: the skip flag, once set, stays set.
HandleMentalRayComplete_KeepSkip(m, l) ==
    /\ IF SkipNextFrame
       THEN /\ UNCHANGED <<SkipNextFrame, FinishedFrameCount>>
            /\ Quiet
       ELSE /\ FinishedFrameCount' = FinishedFrameCount + 1
            /\ UNCHANGED SkipNextFrame
            /\ IF FrameSpan # 0
               THEN SetProgress(Rat(FinishedFrameCount' * 100, FrameSpan))
               ELSE Quiet
    /\ UNCHANGED <<PreviousFinishedFrame, vrayRenderingImage,
                   CausticCurrentFrame, CausticTotalPasses, initialFrame, FumeFX>>

HandleMentalRayComplete(m, l) ==
    /\ IF SkipNextFrame
       THEN /\ SkipNextFrame' = FALSE
            /\ UNCHANGED FinishedFrameCount
            /\ Quiet
       ELSE /\ FinishedFrameCount' = FinishedFrameCount + 1
            /\ UNCHANGED SkipNextFrame
            /\ IF FrameSpan # 0
               THEN SetProgress(Rat(FinishedFrameCount' * 100, FrameSpan))
               ELSE Quiet
    /\ UNCHANGED <<PreviousFinishedFrame, vrayRenderingImage,
                   CausticCurrentFrame, CausticTotalPasses, initialFrame, FumeFX>>

\* Mutant: the gathering percent is reported as the frame's progress.
HandleMentalRayGathering_AsProgress(m, l) ==
    /\ IF FrameSpan # 0
       THEN SetProgressAndStatus(SubFrameProgress(Decimal(l)),
                                 TextOf(Match0(m.pat, l)))
       ELSE Quiet
    /\ UNCHANGED plugin

HandleMentalRayGathering(m, l) ==
    /\ SetStatusMessage(TextOf(Match0(m.pat, l)))
    /\ UNCHANGED plugin

\* Mutant: a repeated frame takes its count back at once.
HandleMentalRayWritingFrame_Uncount(m, l) ==
    LET currFinishedFrame == l.a
    IN  /\ IF PreviousFinishedFrame = currFinishedFrame
           THEN /\ FinishedFrameCount' = FinishedFrameCount - 1
                /\ UNCHANGED <<PreviousFinishedFrame, SkipNextFrame>>
           ELSE /\ PreviousFinishedFrame' = currFinishedFrame
                /\ UNCHANGED <<SkipNextFrame, FinishedFrameCount>>
        /\ Quiet
        /\ UNCHANGED <<vrayRenderingImage, CausticCurrentFrame,
                       CausticTotalPasses, initialFrame, FumeFX>>

\* Mutant: a repeated frame is recorded like a new one.
HandleMentalRayWritingFrame_NoSkip(m, l) ==
    /\ PreviousFinishedFrame' = l.a
    /\ Quiet
    /\ UNCHANGED <<SkipNextFrame, FinishedFrameCount, vrayRenderingImage,
                   CausticCurrentFrame, CausticTotalPasses, initialFrame,
                   FumeFX>>

\* Mutant: every writing line sets the skip flag.
HandleMentalRayWritingFrame_SkipAlways(m, l) ==
    /\ SkipNextFrame' = TRUE
    /\ PreviousFinishedFrame' = l.a
    /\ Quiet
    /\ UNCHANGED <<FinishedFrameCount, vrayRenderingImage,
                   CausticCurrentFrame, CausticTotalPasses, initialFrame,
                   FumeFX>>

HandleMentalRayWritingFrame(m, l) ==
    LET currFinishedFrame == l.a
    IN  /\ IF PreviousFinishedFrame = currFinishedFrame
           THEN /\ SkipNextFrame' = TRUE
                /\ UNCHANGED PreviousFinishedFrame
           ELSE /\ PreviousFinishedFrame' = currFinishedFrame
                /\ UNCHANGED SkipNextFrame
        /\ Quiet
        /\ UNCHANGED <<FinishedFrameCount, vrayRenderingImage,
                       CausticCurrentFrame, CausticTotalPasses, initialFrame,
                       FumeFX>>

\* re.match anchors at the start of GetRegexMatch(0), which starts where the
\* line starts: with text before "FumeFX:" no branch is taken.
HandleFumeFXProgress(m, l) ==
    LET denominator == FumeFX.EndFrame - FumeFX.StartFrame + 1
        curr == l.a
    IN  /\ UNCHANGED <<FinishedFrameCount, PreviousFinishedFrame, SkipNextFrame,
                       vrayRenderingImage, CausticCurrentFrame,
                       CausticTotalPasses, initialFrame>>
        /\ IF l.lead
           THEN Quiet /\ UNCHANGED FumeFX
           ELSE CASE m.pat = "FumeFX: Starting simulation" ->
                       /\ FumeFX' = [FumeFX EXCEPT !.StartFrame = l.a,
                                                   !.EndFrame = l.b]
                       /\ Quiet
                  [] m.pat = "FumeFX: Frame: " ->
                       /\ FumeFX' = [FumeFX EXCEPT !.CurrFrame = curr]
                       /\ IF denominator = 0
                          THEN Raise("ZeroDivisionError")
                          ELSE SetProgressAndStatus(
                                  Rat((curr - FumeFX.StartFrame + 1) * 100,
                                      denominator),
                                  Text({"FumeFX: ( to ) - Mem: - LastTime: - ETA: "},
                                       <<curr, FumeFX.EndFrame, FumeFX.MemUsed,
                                         FumeFX.FrameTime, FumeFX.EstTime>>))
                  [] m.pat = "FumeFX: Memory used: " ->
                       /\ FumeFX' = [FumeFX EXCEPT !.MemUsed = l.a]
                       /\ Quiet
                  [] m.pat = "FumeFX: Frame Time: " ->
                       /\ FumeFX' = [FumeFX EXCEPT !.FrameTime = l.a]
                       /\ Quiet
                  [] m.pat = "FumeFX: Estimated Time: " ->
                       /\ FumeFX' = [FumeFX EXCEPT !.EstTime = l.a]
                       /\ Quiet

HandleRedshiftGPUAffinityError(m, l) ==
    /\ FailRender(Text({"Redshift has detected that the selected GPU is invalid."},
                       <<l.b>>))
    /\ cfg' = Unread
    /\ UNCHANGED plugin

---------------------------------------------------------------------------
(* The plugin's callbacks, as the host calls them. *)

\* The handler bound to the rule m runs on the line l.
Run(m, l) ==
    CASE m.handler = "none" -> Quiet /\ UNCHANGED plugin
      [] m.handler = "HandleFumeFXProgress" -> HandleFumeFXProgress(m, l)
      [] m.handler = "HandleFatalError" -> HandleFatalError(m, l)
      [] m.handler = "HandleUsageError" -> HandleUsageError(m, l)
      [] m.handler = "HandleChunkedProgress1" -> HandleChunkedProgress1(m, l)
      [] m.handler = "HandleChunkedProgress2" -> HandleChunkedProgress2(m, l)
      [] m.handler = "HandleStatusMessage" -> HandleStatusMessage(m, l)
      [] m.handler = "HandleRedshiftGPUAffinityError" ->
            HandleRedshiftGPUAffinityError(m, l)
      [] m.handler = "HandleErrorMessage" -> HandleErrorMessage(m, l)
      [] m.handler = "HandleMentalRayProgress" -> HandleMentalRayProgress(m, l)
      [] m.handler = "HandleMentalRayGathering" -> HandleMentalRayGathering(m, l)
      [] m.handler = "HandleMentalRayWritingFrame" ->
            HandleMentalRayWritingFrame(m, l)
      [] m.handler = "HandleMentalRayComplete" -> HandleMentalRayComplete(m, l)
      [] m.handler = "HandleProgressMessage1" -> HandleProgressMessage1(m, l)
      [] m.handler = "HandleProgressMessage2" -> HandleProgressMessage2(m, l)
      [] m.handler = "HandleProgressMessage3" -> HandleProgressMessage3(m, l)
      [] m.handler = "HandleVrayMessage" -> HandleVrayMessage(m, l)
      [] m.handler = "HandleVrayProgress" -> HandleVrayProgress(m, l)
      [] m.handler = "HandleVrayFrameComplete" -> HandleVrayFrameComplete(m, l)
      [] m.handler = "HandleVrayExportProgress" -> HandleVrayExportProgress(m, l)
      [] m.handler = "HandleVrayExportComplete" -> HandleVrayExportComplete(m, l)
      [] m.handler = "HandleRendermanProgress" -> HandleRendermanProgress(m, l)
      [] m.handler = "HandlePointCloudOutput" -> HandlePointCloudOutput(m, l)
      [] m.handler = "HandleOctaneStartFrame" -> HandleOctaneStartFrame(m, l)
      [] m.handler = "HandleOctaneProgress" -> HandleOctaneProgress(m, l)
      [] m.handler = "HandleCausticVisualizerCurrentFrame" ->
            HandleCausticVisualizerCurrentFrame(m, l)
      [] m.handler = "HandleCausticVisualizerTotalPasses" ->
            HandleCausticVisualizerTotalPasses(m, l)
      [] m.handler = "HandleCausticVisualizerCurrentPass" ->
            HandleCausticVisualizerCurrentPass(m, l)

FumeFXInitial ==
    [StartFrame |-> 0, EndFrame |-> 0, CurrFrame |-> 0, MemUsed |-> 0,
     FrameTime |-> 0, EstTime |-> 0]

\* The class attributes and __init__.
Init ==
    /\ Renderer = "mayasoftware"
    /\ StartFrame = 0
    /\ EndFrame = 0
    /\ phase = "new"
    /\ FinishedFrameCount = 0
    /\ PreviousFinishedFrame = -1
    /\ SkipNextFrame = FALSE
    /\ vrayRenderingImage = FALSE
    /\ CausticCurrentFrame = 0
    /\ CausticTotalPasses = 0
    /\ initialFrame = <<>>
    /\ IgnoreError211 = FALSE
    /\ FumeFX = FumeFXInitial
    /\ progress = FromInt(0)
    /\ statusMessage = NoText
    /\ failReason = NoText
    /\ line = NoLine
    /\ fired = NoRule
    /\ calls = {}
    /\ cfg = Unread
    /\ log = <<>>
    /\ nTasks = 0
    /\ exitCode = 0

\* InitializeProcess with the plugin info entry "Renderer" lower-casing to
\* renderer; the handlers it registers are Registry(renderer).
InitializeProcess(renderer) ==
    /\ phase = "new"
    /\ phase' = "ready"
    /\ Renderer' = renderer
    /\ FumeFX' = FumeFXInitial
    /\ vrayRenderingImage' = IF renderer = "vray" \/ renderer = "vrayexport"
                             THEN FALSE
                             ELSE vrayRenderingImage
    /\ UNCHANGED <<StartFrame, EndFrame, FinishedFrameCount,
                   PreviousFinishedFrame, SkipNextFrame, CausticCurrentFrame,
                   CausticTotalPasses, initialFrame, IgnoreError211, host, obs,
                   log, nTasks, exitCode>>

\* The host hands the plugin a task of frames start..end and calls
\* PreRenderTasks.
PreRenderTasks(start, end) ==
    /\ phase = "ready"
    /\ phase' = "prepared"
    /\ StartFrame' = start
    /\ EndFrame' = end
    /\ FinishedFrameCount' = 0
    /\ PreviousFinishedFrame' = -1
    /\ SkipNextFrame' = FALSE
    /\ log' = <<>>
    /\ nTasks' = nTasks + 1
    /\ UNCHANGED <<Renderer, vrayRenderingImage, CausticCurrentFrame,
                   CausticTotalPasses, initialFrame, FumeFX, IgnoreError211,
                   host, obs, exitCode>>

\* RenderArgument, line 231, with the plugin info entry "IgnoreError211".
RenderArgument(ignore) ==
    /\ phase = "prepared"
    /\ phase' = "running"
    /\ IgnoreError211' = ignore
    /\ UNCHANGED <<job, plugin, host, obs, log, nTasks, exitCode>>

\* The renderer prints the line l and the host dispatches it.
StdoutLine(l) ==
    LET m == FirstMatch(Registry(Renderer), l)
    IN  /\ phase = "running"
        /\ line' = l
        /\ fired' = m
        /\ log' = Append(log, l)
        /\ Run(m, l)
        /\ UNCHANGED <<job, IgnoreError211, nTasks, exitCode>>

\* Mutant: the exit code is looked at even after a handler failed the task.
CheckExitCode_AfterFail(code) ==
    /\ phase \in {"running", "failed"}
    /\ exitCode' = code
    /\ IF code # 0
       THEN IF code = 206
            THEN FailRender(Text({"Maya could not parse the command line."}, <<>>))
            ELSE IF code = 211 /\ IgnoreError211
                 THEN /\ calls' = {"LogInfo: error code 211 ignored"}
                      /\ phase' = "checked"
                      /\ UNCHANGED host
                 ELSE FailRender(Text({"Renderer returned non-zero error code %d."},
                                      <<code>>))
       ELSE /\ calls' = {}
            /\ phase' = "checked"
            /\ UNCHANGED host
    /\ cfg' = Unread
    /\ UNCHANGED <<job, plugin, IgnoreError211, line, fired, log, nTasks>>

\* Mutant: code 206 gets the message of every other code.
CheckExitCode_Plain206(code) ==
    /\ phase = "running"
    /\ exitCode' = code
    /\ IF code # 0
       THEN IF code = 211 /\ IgnoreError211
            THEN /\ calls' = {"LogInfo: error code 211 ignored"}
                 /\ phase' = "checked"
                 /\ UNCHANGED host
            ELSE FailRender(Text({"Renderer returned non-zero error code %d."},
                                 <<code>>))
       ELSE /\ calls' = {}
            /\ phase' = "checked"
            /\ UNCHANGED host
    /\ cfg' = Unread
    /\ UNCHANGED <<job, plugin, IgnoreError211, line, fired, log, nTasks>>

\* Mutant: code 211 is ignored whatever IgnoreError211 says.
CheckExitCode_Always211(code) ==
    /\ phase = "running"
    /\ exitCode' = code
    /\ IF code # 0
       THEN IF code = 206
            THEN FailRender(Text({"Maya could not parse the command line."}, <<>>))
            ELSE IF code = 211
                 THEN /\ calls' = {"LogInfo: error code 211 ignored"}
                      /\ phase' = "checked"
                      /\ UNCHANGED host
                 ELSE FailRender(Text({"Renderer returned non-zero error code %d."},
                                      <<code>>))
       ELSE /\ calls' = {}
            /\ phase' = "checked"
            /\ UNCHANGED host
    /\ cfg' = Unread
    /\ UNCHANGED <<job, plugin, IgnoreError211, line, fired, log, nTasks>>

\* The renderer exits with exitCode and the host calls CheckExitCode.
CheckExitCode(code) ==
    /\ phase = "running"
    /\ exitCode' = code
    /\ IF code # 0
       THEN IF code = 206
            THEN FailRender(Text({"Maya could not parse the command line."}, <<>>))
            ELSE IF code = 211 /\ IgnoreError211
                 THEN /\ calls' = {"LogInfo: error code 211 ignored"}
                      /\ phase' = "checked"
                      /\ UNCHANGED host
                 ELSE FailRender(Text({"Renderer returned non-zero error code %d."},
                                      <<code>>))
       ELSE /\ calls' = {}
            /\ phase' = "checked"
            /\ UNCHANGED host
    /\ cfg' = Unread
    /\ UNCHANGED <<job, plugin, IgnoreError211, line, fired, log, nTasks>>

\* PostRenderTasks, line 1068.
PostRenderTasks ==
    /\ phase = "checked"
    /\ phase' = "ready"
    /\ initialFrame' = <<>>
    /\ UNCHANGED <<job, FinishedFrameCount, PreviousFinishedFrame, SkipNextFrame,
                   vrayRenderingImage, CausticCurrentFrame, CausticTotalPasses,
                   FumeFX, IgnoreError211, host, obs, log, nTasks, exitCode>>

---------------------------------------------------------------------------
(* The inputs: renderers, frame ranges, exit codes and output lines. *)

\* The renderers InitializeProcess tells apart, and two it does not.
Renderers ==
    {"mayasoftware", "mentalray", "vray", "vrayexport", "renderman",
     "rendermanris", "rendermanexport", "3delight", "arnold", "arnoldexport",
     "octanerender", "causticvisualizer", "redshift"}

\* Tasks <<start, end>>: from two frames short of start (a negative span)
\* over the empty span end = start - 1 to MaxSpan frames past start.
RangesFrom(s) == {<<s, e>> : e \in (s - 2)..(s + MaxSpan)}

FrameRanges == RangesFrom(1)

\* A task of two frames and a task without frames.
TwoRanges == {<<1, 2>>, <<1, 0>>}

ExitCodes == {0, 1, 42, 206, 211, 212, -1}

Frames == 0..MaxFrame
Percents == {0, 50, 100}
Tenths == {0, 5}

\* The patterns bound to HandleFatalError and to the Redshift GPU handler.
FatalFrags ==
    {"FLEXlm error: ", "Maya: License was not obtained", "CUDA_ERROR_UNKNOWN",
     "Failed to init the CUDA driver API",
     "The system does not support the required CUDA compute capabilities",
     "redshiftSelectCudaDevices.mel line N: Invalid device id: N",
     "V-Ray error: ", "3DL ERROR ",
     "Plug-in, \"mtoa\", was not found on MAYA_PLUG_IN_PATH",
     "[mtoa] Failed batch render", "Frame rendering aborted.",
     "Rendering was internally aborted", "Cannot find procedure \"rsPreference\""}

CatchAllFrags == {"Error: ", "Warning: "}

\* A fatal text alone, or on a line that also reads Error: or Warning: .
FatalLines ==
    {Line({f} \cup c, 0, 0, FALSE) :
        f \in FatalFrags, c \in {{}} \cup {{x} : x \in CatchAllFrags}}

\* The texts HandleErrorMessage searches for.
ErrorTexts ==
    UNION {FatalList[i] : i \in 1..Len(FatalList)} \cup {"Cannot load scene"}

\* Error: and Warning: lines: bare, with one searched text, with both texts
\* of a two-text entry, and "Cannot load scene" beside a known-fatal text.
ErrorLines ==
    {Line({c} \cup S, 0, 0, FALSE) :
        c \in CatchAllFrags,
        S \in {{}} \cup {{t} : t \in ErrorTexts}
              \cup {FatalList[i] : i \in 1..Len(FatalList)}
              \cup {{"Cannot load scene", "could not get a license"}}}

PlainFrags ==
    {"Finished Rendering", "Constructing shading groups",
     "Rendering current frame", "progr: rendering finished", "| render done",
     "[PROGRESS] Completed fram", "Render complete", "Usage: Render ",
     "V-Ray: Building light cache", "V-Ray: Rendering image",
     "V-Ray: Total frame time", "V-Ray: Render complete", "[N N N]",
     "Octane: starting animation of frame", "just some text"}

FrameFrags ==
    {"progr: writing image file (frame N)", "V-Ray: Updating frame at time N",
     "rfm Notice: Rendering at N", "Executing frame N", "Rendering N passes",
     "Rendered to pass N"}

PercentFrags ==
    {"N%", "[PROGRESS] N percent", "RIMG : N%", "V-Ray: N%", "V-Ray: N %",
     "N % completed"}

DecimalFrags ==
    {"progr: N.D% rendered", "progr: N.D% computing final gather points",
     "[PROGRESS] Percentage of rendering done: ",
     "[PROGRESS] TURTLE rendering frame N.D"}

FumeFXValueFrags ==
    {"FumeFX: Memory used: ", "FumeFX: Frame Time: ", "FumeFX: Estimated Time: "}

ProgressLines ==
    {Line({f}, 0, 0, FALSE) : f \in PlainFrags}
    \cup {Line({"Finished Rendering", ".N.ext"}, a, 0, FALSE) : a \in Frames}
    \cup {Line({f}, a, 0, FALSE) : f \in FrameFrags, a \in Frames}
    \cup {Line({f}, a, 0, FALSE) : f \in PercentFrags, a \in Percents}
    \cup {Line({f}, a, b, FALSE) : f \in DecimalFrags, a \in Percents, b \in Tenths}
    \cup {Line({"[PROGRESS] TURTLE rendering frame 100.00"}, 100, 0, FALSE),
          Line({"[PROGRESS] Percentage of rendering done: ", "N%"}, 50, 0, FALSE),
          Line({"V-Ray: Prepass N of N"}, 1, 2, FALSE)}
    \cup {Line({"Octane: Refreshed image, N samples per pixel of N"}, a, b, FALSE) :
            a \in {0, 1, 2}, b \in {0, 2}}
    \cup {Line({"FumeFX: Starting simulation"}, a, b, lead) :
            a \in {-1, 1}, b \in {-2, 0, 1}, lead \in BOOLEAN}
    \cup {Line({"FumeFX: Frame: "}, a, 0, lead) :
            a \in {-1, 0, 1}, lead \in BOOLEAN}
    \cup {Line({f}, 1, 0, FALSE) : f \in FumeFXValueFrags}

\* Lines on which a progress text shares the line with Error: or Warning: .
MixedLines ==
    {Line({c, f}, 50, 0, FALSE) :
        c \in CatchAllFrags,
        f \in {"Finished Rendering", "N%", "progr: rendering finished",
               "FumeFX: Frame: "}}

Lines == FatalLines \cup ErrorLines \cup ProgressLines \cup MixedLines

---------------------------------------------------------------------------
(* Specifications. *)

\* The host starts the plugin: InitializeProcess, PreRenderTasks with the
\* task's frames, RenderArgument.
Start(ranges, ignores) ==
    \/ \E r \in Renderers : InitializeProcess(r)
    \/ \E fr \in ranges : nTasks < MaxTasks /\ PreRenderTasks(fr[1], fr[2])
    \/ \E ignore \in ignores : RenderArgument(ignore)

\* The output stream of a task of two frames: any renderer, any line of the
\* catalogue.
Next ==
    \/ Start({<<1, 2>>}, {FALSE})
    \/ \E l \in Lines : Len(log) < MaxLines /\ StdoutLine(l)

Spec == Init /\ [][Next]_vars

\* One line for each pattern any renderer registers.
Patterns ==
    UNION {{Registry(r)[i].pat : i \in 1..Len(Registry(r))} : r \in Renderers}

KindLines ==
    UNION {{Line(alt, 1, 1, FALSE) : alt \in Needs(pat)} : pat \in Patterns}

\* Streams of several lines, one kind of line for each pattern.
NextKinds ==
    \/ Start({<<1, 2>>}, {FALSE})
    \/ \E l \in KindLines : Len(log) < MaxKindLines /\ StdoutLine(l)

SpecKinds == Init /\ [][NextKinds]_vars

\* "Finished Rendering" lines, with and without a frame number.
ChunkLines ==
    {Line({"Finished Rendering", ".N.ext"}, a, 0, FALSE) : a \in Frames}
    \cup {Line({"Finished Rendering"}, 0, 0, FALSE)}

ChunkRanges == UNION {RangesFrom(s) : s \in 0..MaxStart}

NextChunk ==
    \/ Start(ChunkRanges, {FALSE})
    \/ \E l \in ChunkLines : Len(log) < MaxChunkLines /\ StdoutLine(l)

SpecChunk == Init /\ [][NextChunk]_vars

\* Streams of "Finished Rendering" lines without frame numbers.
NextCompletion ==
    \/ Start(ChunkRanges \cup {<<1, 10>>}, {FALSE})
    \/ Len(log) < MaxCompletions
         /\ StdoutLine(Line({"Finished Rendering"}, 0, 0, FALSE))

SpecCompletion == Init /\ [][NextCompletion]_vars

\* Mental Ray's frame lines.
MentalRayLines ==
    {Line({"progr: writing image file (frame N)"}, a, 0, FALSE) : a \in Frames}
    \cup {Line({"progr: rendering finished"}, 0, 0, FALSE),
          Line({"progr: N.D% rendered"}, 50, 0, FALSE)}

NextMentalRay ==
    \/ Start(FrameRanges, {FALSE})
    \/ \E l \in MentalRayLines : Len(log) < MaxMentalRayLines /\ StdoutLine(l)

SpecMentalRay == Init /\ [][NextMentalRay]_vars

\* Whole tasks: a short output stream, the renderer's exit, PostRenderTasks.
ExitLines ==
    {Line({"just some text"}, 0, 0, FALSE),
     Line({"Finished Rendering"}, 0, 0, FALSE),
     Line({"FLEXlm error: "}, 0, 0, FALSE),
     Line({"Rendering N passes"}, 2, 0, FALSE)}

NextExit ==
    \/ Start(TwoRanges, BOOLEAN)
    \/ \E l \in ExitLines : Len(log) < MaxExitLines /\ StdoutLine(l)
    \/ \E c \in ExitCodes : CheckExitCode(c)
    \/ PostRenderTasks

SpecExit == Init /\ [][NextExit]_vars

\* V-Ray's lines: the phases of a frame, the percent in its three forms, the
\* end of the frame.
VrayLines ==
    {Line({f}, 0, 0, FALSE) :
        f \in {"V-Ray: Building light cache", "V-Ray: Rendering image",
               "V-Ray: Total frame time"}}
    \cup {Line({"V-Ray: Prepass N of N"}, 1, 2, FALSE),
          Line({"V-Ray: N%"}, 50, 0, FALSE),
          Line({"V-Ray: N %"}, 0, 0, FALSE),
          Line({"N % completed"}, 100, 0, FALSE)}

VrayRenderers == {"vray", "vrayexport"}

\* Tasks of a V-Ray job, one after another on the plugin instance.
NextVray ==
    \/ \E r \in VrayRenderers : InitializeProcess(r)
    \/ \E fr \in TwoRanges : nTasks < MaxTasks /\ PreRenderTasks(fr[1], fr[2])
    \/ RenderArgument(FALSE)
    \/ \E l \in VrayLines : Len(log) < MaxVrayLines /\ StdoutLine(l)
    \/ CheckExitCode(0)
    \/ PostRenderTasks

SpecVray == Init /\ [][NextVray]_vars

\* Percent lines of the three sub-frame handlers, and the lines that finish
\* a frame between them.
SubFrameLines ==
    {Line({"N%"}, a, 0, FALSE) : a \in Percents}
    \cup {Line({"[PROGRESS] N percent"}, 50, 0, FALSE),
          Line({"progr: N.D% rendered"}, 50, 5, FALSE),
          Line({"V-Ray: Rendering image"}, 0, 0, FALSE),
          Line({"V-Ray: N%"}, 50, 0, FALSE),
          Line({"V-Ray: Total frame time"}, 0, 0, FALSE),
          Line({"Finished Rendering"}, 0, 0, FALSE)}

NextSubFrame ==
    \/ \E r \in {"mayasoftware", "vray"} : InitializeProcess(r)
    \/ \E fr \in FrameRanges : nTasks < MaxTasks /\ PreRenderTasks(fr[1], fr[2])
    \/ RenderArgument(FALSE)
    \/ \E l \in SubFrameLines : Len(log) < MaxSubFrameLines /\ StdoutLine(l)

SpecSubFrame == Init /\ [][NextSubFrame]_vars

\* Caustic Visualizer's lines.
CausticLines ==
    {Line({f}, a, 0, FALSE) :
        f \in {"Executing frame N", "Rendering N passes", "Rendered to pass N"},
        a \in Frames}

NextCaustic ==
    \/ \E r \in {"causticvisualizer", "mayasoftware"} : InitializeProcess(r)
    \/ \E fr \in FrameRanges : nTasks < MaxTasks /\ PreRenderTasks(fr[1], fr[2])
    \/ RenderArgument(FALSE)
    \/ \E l \in CausticLines : Len(log) < MaxCausticLines /\ StdoutLine(l)

SpecCaustic == Init /\ [][NextCaustic]_vars

\* Mental Ray printing every frame twice: for each frame of the task in
\* order, writing frame N, rendering finished, writing frame N, rendering
\* finished.  The line that follows p lines of that output:
TwiceLine(p) ==
    IF p % 2 = 0
    THEN Line({"progr: writing image file (frame N)"}, StartFrame + p \div 4,
              0, FALSE)
    ELSE Line({"progr: rendering finished"}, 0, 0, FALSE)

\* Tasks of one frame and more.
TwiceRanges ==
    {fr \in (0..MaxStart) \X (0..(MaxStart + MaxSpan)) :
        fr[1] <= fr[2] /\ fr[2] - fr[1] <= MaxSpan}

NextTwice ==
    \/ Start(TwiceRanges, {FALSE})
    \/ Len(log) < 4 * FrameSpan /\ StdoutLine(TwiceLine(Len(log)))

SpecTwice == Init /\ [][NextTwice]_vars

\* A renderer that reports every frame of the task in order: the frame's
\* percent rising 0, 50, 100, then the line that completes the frame, either
\* with the frame number in every frame or without it in every frame.
OrderlyLines ==
    {Line({"N%"}, a, 0, FALSE) : a \in Percents}
    \cup {Line({"Finished Rendering", ".N.ext"}, f, 0, FALSE) :
            f \in 0..(MaxStart + MaxSpan)}
    \cup {Line({"Finished Rendering"}, 0, 0, FALSE)}

\* l is a line that may follow the task's output so far.
OrderlyNext(l) ==
    LET p == Len(log)
        numbered == ".N.ext" \in l.frags
    IN  IF p % 4 < 3
        THEN l = Line({"N%"}, 50 * (p % 4), 0, FALSE)
        ELSE /\ "Finished Rendering" \in l.frags
             /\ numbered => l.a = StartFrame + p \div 4
             /\ p > 4 => (numbered <=> ".N.ext" \in log[4].frags)

NextOrderly ==
    \/ Start(TwiceRanges, {FALSE})
    \/ \E l \in OrderlyLines :
          Len(log) < 4 * FrameSpan /\ OrderlyNext(l) /\ StdoutLine(l)

SpecOrderly == Init /\ [][NextOrderly]_vars

---------------------------------------------------------------------------
(* Properties. *)

\* A step that dispatches an output line.
Dispatched == phase = "running" /\ log' # log

\* A step that is the call of CheckExitCode.
ExitChecked == phase = "running" /\ log' = log /\ phase' # "running"

FatalHandlers == {"HandleFatalError", "HandleRedshiftGPUAffinityError"}

\* Some fatal rule registered for the renderer matches the line.
RegisteredFatal(l) ==
    \E i \in 1..Len(Registry(Renderer)) :
        /\ Registry(Renderer)[i].handler \in FatalHandlers
        /\ Matches(Registry(Renderer)[i].pat, l)

CatchAll == ".*Error: .*|.*Warning: .*"

\* C1: when the dispatched line matches a fatal pattern registered for the
\* renderer and also the Error:/Warning: catch-all, the handler that ran is
\* the fatal one, not HandleErrorMessage.
C1_SpecificFatalWins ==
    (log # <<>> /\ RegisteredFatal(line) /\ Matches(CatchAll, line))
        => fired.handler \in FatalHandlers

\* C2: a dispatch runs the handler of the first registered rule whose pattern
\* matches the line and no other; when no rule matches, no handler runs, no
\* plugin field and no host value changes and the task does not fail.
C2_AtMostOneHandler ==
    [][Dispatched =>
        LET reg == Registry(Renderer)
            hit == {i \in 1..Len(reg) : Matches(reg[i].pat, line')}
        IN  IF hit = {}
            THEN /\ fired' = NoRule
                 /\ calls' = {}
                 /\ UNCHANGED <<plugin, host, phase>>
            ELSE \E i \in hit :
                    /\ fired' = reg[i]
                    /\ \A j \in hit : i <= j]_vars

C2_Witness ==
    /\ log # <<>>
    /\ fired = NoRule
    /\ line.frags = {"V-Ray: Total frame time"}
    /\ phase = "running"

\* C3 as stated: a "Finished Rendering" line with frame number f, start <= f
\* <= end, sets the progress to the exact quotient 100*(f-start+1)/(end-start+1).
C3_ExactQuotient ==
    (/\ log # <<>>
     /\ fired.handler = "HandleChunkedProgress1"
     /\ StartFrame <= line.a
     /\ line.a <= EndFrame)
        => progress = Rat(100 * (line.a - StartFrame + 1), FrameSpan)

\* C3, amended: the progress is the integer part of that quotient, the
\* largest integer p with p * (end-start+1) <= 100 * (f-start+1).
C3_FloorOfQuotient ==
    (/\ log # <<>>
     /\ fired.handler = "HandleChunkedProgress1"
     /\ StartFrame <= line.a
     /\ line.a <= EndFrame)
        => /\ "SetProgress" \in calls
           /\ progress[2] = 1
           /\ progress[1] * FrameSpan <= 100 * (line.a - StartFrame + 1)
           /\ 100 * (line.a - StartFrame + 1) < (progress[1] + 1) * FrameSpan

C3_Witness ==
    /\ log # <<>>
    /\ fired.handler = "HandleChunkedProgress1"
    /\ StartFrame = 2
    /\ EndFrame = 4
    /\ line.a = 3
    /\ progress = <<66, 1>>

\* C4 as stated: in a task with end < start the by-frame-number handler never
\* sets the progress.
C4_NoUpdateWhenEndBeforeStart ==
    (/\ log # <<>>
     /\ fired.handler = "HandleChunkedProgress1"
     /\ EndFrame < StartFrame)
        => "SetProgress" \notin calls

\* C4, amended: in a task with end = start - 1 (no frames, end-start+1 = 0)
\* the by-frame-number handler makes no host call and changes nothing.
C4_NoUpdateWhenSpanEmpty ==
    [][(/\ Dispatched
        /\ fired'.handler = "HandleChunkedProgress1"
        /\ EndFrame = StartFrame - 1)
           => /\ calls' = {}
              /\ UNCHANGED <<plugin, host, phase>>]_vars

C4_Witness ==
    /\ Len(log) >= 2
    /\ fired.handler = "HandleChunkedProgress1"
    /\ EndFrame = StartFrame - 1
    /\ FinishedFrameCount = 1
    /\ calls = {}

\* C5: PreRenderTasks leaves FinishedFrameCount at 0, and while the task runs
\* no step, whatever line is dispatched under whatever renderer, lowers it.
C5_CountResetThenMonotone ==
    [][/\ (phase = "ready" /\ phase' = "prepared") => FinishedFrameCount' = 0
       /\ phase = "running" => FinishedFrameCount' >= FinishedFrameCount]_vars

C5_Witness ==
    /\ phase = "running"
    /\ Len(log) = 2
    /\ FinishedFrameCount = 2

\* C6: in a task of n # 0 frames, after k "Finished Rendering" lines without
\* frame numbers FinishedFrameCount = k and the progress is 100*k/n; for
\* frames 1..10 the progress after the k-th line is 10*k.
C6_GenericCompletionSequence ==
    (phase = "running" /\ log # <<>>)
        => /\ fired.handler = "HandleChunkedProgress2"
           /\ FinishedFrameCount = Len(log)
           /\ FrameSpan # 0 => /\ progress = Rat(100 * Len(log), FrameSpan)
                               /\ calls = {"SetProgress"}
           /\ (StartFrame = 1 /\ EndFrame = 10)
                 => progress = <<10 * Len(log), 1>>

C6_Witness ==
    /\ StartFrame = 1
    /\ EndFrame = 10
    /\ Len(log) = 10
    /\ FinishedFrameCount = 10
    /\ progress = <<100, 1>>

\* C7: when HandleErrorMessage runs on a message of the known-fatal list that
\* does not contain "Cannot load scene", it fails the task if
\* StrictErrorChecking is on; if it is off it only logs a warning, the task
\* goes on and no plugin field or host value changes.
C7_StrictToggle ==
    [][(/\ Dispatched
        /\ fired'.handler = "HandleErrorMessage"
        /\ ~IgnoreError(Match0(fired'.pat, line'))
        /\ "Cannot load scene" \notin line'.frags)
           => /\ cfg'.StrictErrorChecking \in {"on", "off"}
              /\ cfg'.StrictErrorChecking = "on"
                    => /\ phase' = "failed"
                       /\ calls' = {"FailRender"}
              /\ cfg'.StrictErrorChecking = "off"
                    => /\ phase' = "running"
                       /\ calls' = {"LogWarning: Strict error checking off"}
                       /\ UNCHANGED <<plugin, host>>]_vars

C7_Witness ==
    /\ log # <<>>
    /\ fired.handler = "HandleErrorMessage"
    /\ "could not get a license" \in line.frags
    /\ "Cannot load scene" \notin line.frags
    /\ cfg.StrictErrorChecking = "off"
    /\ phase = "running"

\* C8: when HandleErrorMessage runs on a message containing "Cannot load
\* scene" the task fails with that message, and neither StrictErrorChecking
\* nor SuppressWarnings has been read.
C8_CannotLoadSceneFails ==
    (/\ log # <<>>
     /\ fired.handler = "HandleErrorMessage"
     /\ "Cannot load scene" \in line.frags)
        => /\ phase = "failed"
           /\ calls = {"FailRender"}
           /\ failReason = TextOf(line)
           /\ cfg = Unread

C8_Witness ==
    /\ log # <<>>
    /\ fired.handler = "HandleErrorMessage"
    /\ "Cannot load scene" \in line.frags
    /\ phase = "failed"

IsWritingFrame(l) == "progr: writing image file (frame N)" \in l.frags

IsRenderingFinished(l) == "progr: rendering finished" \in l.frags

\* The task's output so far is: writing frame N, writing frame N, finished.
WriteWriteFinished ==
    /\ Len(log) = 3
    /\ IsWritingFrame(log[1])
    /\ IsWritingFrame(log[2])
    /\ log[1].a = log[2].a
    /\ IsRenderingFinished(log[3])

\* The task's output so far is: writing frame N, finished, writing frame N,
\* finished.
WriteFinishedTwice ==
    /\ Len(log) = 4
    /\ IsWritingFrame(log[1])
    /\ IsRenderingFinished(log[2])
    /\ IsWritingFrame(log[3])
    /\ log[1].a = log[3].a
    /\ IsRenderingFinished(log[4])

\* C9 as stated: after writing frame N, writing frame N, finished, from a
\* fresh task, FinishedFrameCount has been incremented once.
C9_IncrementedOnce ==
    WriteWriteFinished => FinishedFrameCount = 1

\* C9, amended: after writing frame N, writing frame N, finished, the count
\* is still 0 and the skip flag is cleared; the count is 1 when each of the
\* two writing lines is followed by its own finished line.
C9_DuplicateSuppression ==
    /\ WriteWriteFinished => (FinishedFrameCount = 0 /\ ~SkipNextFrame)
    /\ WriteFinishedTwice => (FinishedFrameCount = 1 /\ ~SkipNextFrame)

C9_Witness ==
    /\ WriteWriteFinished
    /\ FinishedFrameCount = 0
    /\ calls = {}

\* C10: CheckExitCode lets the task succeed exactly when the code is 0, or
\* is 211 with IgnoreError211 set; with every other code it fails the task.
C10_ExitClassification ==
    [][ExitChecked =>
        /\ phase' \in {"checked", "failed"}
        /\ phase' = "checked"
              <=> (exitCode' = 0 \/ (exitCode' = 211 /\ IgnoreError211))
        /\ phase' = "failed" <=> calls' = {"FailRender"}]_vars

C10_Witness ==
    /\ phase = "checked"
    /\ exitCode = 211
    /\ IgnoreError211

\* C11: CheckExitCode fails code 206 with the fixed command-line message,
\* for both values of IgnoreError211; every other failing code N, 211 not
\* ignored included, fails with the non-zero-error-code message carrying N;
\* for every code but 211 the outcome does not depend on IgnoreError211.
C11_ExitReasons ==
    [][ExitChecked =>
        /\ exitCode' = 206
              => /\ phase' = "failed"
                 /\ failReason' =
                       Text({"Maya could not parse the command line."}, <<>>)
        /\ (phase' = "failed" /\ exitCode' # 206)
              => failReason' =
                    Text({"Renderer returned non-zero error code %d."},
                         <<exitCode'>>)
        /\ exitCode' # 211 => (phase' = "checked" <=> exitCode' = 0)
        /\ UNCHANGED <<plugin, progress, statusMessage>>]_vars

C11_Witness ==
    /\ phase = "failed"
    /\ exitCode = 211
    /\ ~IgnoreError211
    /\ failReason = Text({"Renderer returned non-zero error code %d."}, <<211>>)

\* C12 as stated: a line handled by HandleFatalError or by the Redshift GPU
\* affinity handler fails the task with the matched text as the reason.
C12_ReasonIsMatchedText ==
    (log # <<>> /\ fired.handler \in FatalHandlers)
        => /\ phase = "failed"
           /\ failReason = TextOf(Match0(fired.pat, line))

\* C12, amended: such a line fails the task and changes no plugin field, no
\* progress and no status message; the reason is the matched text for
\* HandleFatalError and a fixed Redshift message carrying the device id for
\* the GPU affinity handler.
C12_FatalLineFails ==
    [][(Dispatched /\ fired'.handler \in FatalHandlers)
          => /\ phase' = "failed"
             /\ calls' = {"FailRender"}
             /\ UNCHANGED <<plugin, progress, statusMessage>>
             /\ failReason' =
                   IF fired'.handler = "HandleFatalError"
                   THEN TextOf(Match0(fired'.pat, line'))
                   ELSE Text({"Redshift has detected that the selected GPU is invalid."},
                             <<line'.b>>)]_vars

C12_Witness ==
    /\ log # <<>>
    /\ fired.handler = "HandleRedshiftGPUAffinityError"
    /\ phase = "failed"
    /\ failReason.n = <<line.b>>

C14_ProgressInRange ==
    (StartFrame <= EndFrame /\ "SetProgress" \in calls)
        => /\ progress[1] >= 0
           /\ progress[1] <= 100 * progress[2]

\* C15: no handler ends in a Python error, whatever the line and the state.
C15_NoHandlerRaises ==
    phase # "error"

\* C16: when PreRenderTasks has started a task, every field the handlers
\* keep has its initial value, whatever the task before did.
C16_FreshAtTaskStart ==
    phase = "prepared"
        => /\ FinishedFrameCount = 0
           /\ PreviousFinishedFrame = -1
           /\ ~SkipNextFrame
           /\ ~vrayRenderingImage
           /\ FumeFX = FumeFXInitial
           /\ CausticCurrentFrame = 0
           /\ CausticTotalPasses = 0
           /\ initialFrame = <<>>

\* The handlers of the renderers' own progress lines.
ProgressHandlers ==
    {"HandleVrayProgress", "HandleMentalRayProgress", "HandleProgressMessage3",
     "HandleOctaneProgress", "HandleCausticVisualizerCurrentPass"}

\* Some progress rule of a renderer, registered for the active one, matches
\* the line.
RegisteredProgress(l) ==
    \E i \in 1..Len(Registry(Renderer)) :
        /\ Registry(Renderer)[i].handler \in ProgressHandlers
        /\ Matches(Registry(Renderer)[i].pat, l)

\* C17 as stated: a dispatched line that matches a registered progress rule
\* of a renderer is handled by such a rule's handler.
C17_HandledByProgressRule ==
    (log # <<>> /\ RegisteredProgress(line))
        => /\ fired.handler \in ProgressHandlers
           /\ Matches(fired.pat, line)

\* C17, amended: whatever the renderer, the two generic percent rules are the
\* last of the registry and the only ones bound to HandleProgressMessage1; a
\* dispatched line that matches a registered progress rule of a renderer is
\* handled by that rule or by a matching rule registered before it, never by
\* HandleProgressMessage1.
C17_GenericPercentLast ==
    phase # "new"
        => \A reg \in {Registry(Renderer)} :
           LET n == Len(reg)
           IN  /\ reg[n - 1] = Rule("[PROGRESS] N percent", "HandleProgressMessage1")
               /\ reg[n] = Rule("N%", "HandleProgressMessage1")
               /\ \A i \in 1..(n - 2) : reg[i].handler # "HandleProgressMessage1"
               /\ \A i \in 1..n :
                     (/\ log # <<>>
                      /\ reg[i].handler \in ProgressHandlers
                      /\ Matches(reg[i].pat, line))
                        => /\ fired.handler # "HandleProgressMessage1"
                           /\ Matches(fired.pat, line)
                           /\ \E j \in 1..i : fired = reg[j]

C17_Witness ==
    /\ log # <<>>
    /\ Renderer = "vray"
    /\ fired.handler = "HandleVrayProgress"
    /\ Matches("N%", line)

\* The handlers InitializeProcess registers for renderer r.
HandlersOf(r) ==
    UNION {{reg[i].handler : i \in 1..Len(reg)} : reg \in {Registry(r)}}

VrayFamily ==
    {"HandleVrayMessage", "HandleVrayProgress", "HandleVrayFrameComplete",
     "HandleVrayExportProgress", "HandleVrayExportComplete"}

MentalRayFamily ==
    {"HandleMentalRayProgress", "HandleMentalRayGathering",
     "HandleMentalRayWritingFrame", "HandleMentalRayComplete"}

CausticFamily ==
    {"HandleCausticVisualizerCurrentFrame", "HandleCausticVisualizerTotalPasses",
     "HandleCausticVisualizerCurrentPass"}

\* C18 as stated: once InitializeProcess has run, the registry holds the
\* rules of a renderer's family only if that renderer is the active one.
C18_FamiliesOnlyWhenActive ==
    phase # "new"
        => /\ HandlersOf(Renderer) \cap VrayFamily # {}
                 => Renderer \in {"vray", "vrayexport"}
           /\ HandlersOf(Renderer) \cap MentalRayFamily # {}
                 => Renderer = "mentalray"
           /\ "HandleFumeFXProgress" \in HandlersOf(Renderer)
                 => Renderer = "fumefx"
           /\ HandlersOf(Renderer) \cap CausticFamily # {}
                 => Renderer = "causticvisualizer"
           /\ "HandleRedshiftGPUAffinityError" \in HandlersOf(Renderer)
                 => Renderer = "redshift"

\* C18, amended: the V-Ray rules are registered exactly for vray and
\* vrayexport, the Caustic rules exactly for causticvisualizer, the Redshift
\* GPU affinity rule exactly for redshift; the Mental Ray and the FumeFX rules
\* are registered for every renderer.  A handler of a conditional family runs
\* only under its renderer.
C18_ConditionalFamilies ==
    phase # "new"
        => \A registered \in {HandlersOf(Renderer)} :
               /\ VrayFamily \subseteq registered
                     <=> Renderer \in {"vray", "vrayexport"}
               /\ registered \cap VrayFamily # {}
                     => Renderer \in {"vray", "vrayexport"}
               /\ CausticFamily \subseteq registered
                     <=> Renderer = "causticvisualizer"
               /\ registered \cap CausticFamily # {}
                     => Renderer = "causticvisualizer"
               /\ "HandleRedshiftGPUAffinityError" \in registered
                     <=> Renderer = "redshift"
               /\ MentalRayFamily \subseteq registered
               /\ "HandleFumeFXProgress" \in registered
               /\ fired.handler \in VrayFamily
                     => Renderer \in {"vray", "vrayexport"}
               /\ fired.handler \in CausticFamily
                     => Renderer = "causticvisualizer"
               /\ fired.handler = "HandleRedshiftGPUAffinityError"
                     => Renderer = "redshift"

C18_Witness ==
    /\ log # <<>>
    /\ Renderer = "vray"
    /\ fired.handler = "HandleMentalRayComplete"
    /\ FinishedFrameCount = 1

\* C19: when HandleErrorMessage has run on a message without "Cannot load
\* scene" and has read StrictErrorChecking as off, the task goes on, the one
\* host call is the warning, no reason of failure is set and SuppressWarnings
\* has not been read, whatever known-fatal texts the message holds.
C19_StrictOffTolerates ==
    (/\ log # <<>>
     /\ fired.handler = "HandleErrorMessage"
     /\ "Cannot load scene" \notin line.frags
     /\ cfg.StrictErrorChecking = "off")
        => /\ phase = "running"
           /\ calls = {"LogWarning: Strict error checking off"}
           /\ failReason = NoText
           /\ cfg.SuppressWarnings = "unread"

C19_Witness ==
    /\ log # <<>>
    /\ fired.handler = "HandleErrorMessage"
    /\ {"Error: Camera", "does not exist"} \subseteq line.frags
    /\ cfg.StrictErrorChecking = "off"
    /\ phase = "running"

\* C20: when HandleErrorMessage has run on a message without "Cannot load
\* scene" and has read StrictErrorChecking as on, the task has failed exactly
\* if the message holds every text of some known-fatal entry; without a hit
\* the line is suppressed exactly if it holds "Warning:" and SuppressWarnings
\* is on, and is logged as unrecognized otherwise.  HandleErrorMessage
\* suppresses a line in no other case.
C20_StrictOnOutcome ==
    LET hit == \E i \in 1..Len(FatalList) : FatalList[i] \subseteq line.frags
    IN  (log # <<>> /\ fired.handler = "HandleErrorMessage")
           => /\ ("Cannot load scene" \notin line.frags
                  /\ cfg.StrictErrorChecking = "on")
                    => /\ phase = "failed" <=> hit
                       /\ hit => /\ calls = {"FailRender"}
                                 /\ cfg.SuppressWarnings = "unread"
                       /\ ~hit
                            => /\ phase = "running"
                               /\ cfg.SuppressWarnings \in {"on", "off"}
                               /\ calls = IF "Warning:" \in line.frags
                                             /\ cfg.SuppressWarnings = "on"
                                          THEN {"SuppressThisLine"}
                                          ELSE {"LogWarning: unrecognized error or warning"}
              /\ "SuppressThisLine" \in calls
                    => /\ cfg.StrictErrorChecking = "on"
                       /\ cfg.SuppressWarnings = "on"
                       /\ "Warning:" \in line.frags
                       /\ ~hit

C20_Witness ==
    /\ log # <<>>
    /\ fired.handler = "HandleErrorMessage"
    /\ "Error: Camera" \in line.frags
    /\ "does not exist" \notin line.frags
    /\ cfg.StrictErrorChecking = "on"
    /\ calls = {"LogWarning: unrecognized error or warning"}
    /\ phase = "running"


\* A line with V-Ray's percent in one of its three forms.
IsVrayPercent(l) ==
    \E pat \in {"V-Ray: N%", "V-Ray: N %", "N % completed"} : Matches(pat, l)

\* A line of V-Ray's light-cache, prepass or rendering-image message.
IsVrayMessage(l) ==
    \E pat \in {"V-Ray: Building light cache", "V-Ray: Prepass N of N",
                "V-Ray: Rendering image"} : Matches(pat, l)

\* C21 as stated: with renderer vray, a V-Ray percent line updates the
\* progress if and only if the rendering-image flag is true.
C21_ProgressIffFlag ==
    (log # <<>> /\ Renderer = "vray" /\ IsVrayPercent(line))
        => ("SetProgress" \in calls <=> vrayRenderingImage)

\* C21, amended: with renderer vray, a V-Ray percent line is handled by
\* HandleVrayProgress and by no generic percent rule; it updates the progress
\* if and only if the rendering-image flag is true and the task has
\* end-start+1 # 0, and otherwise makes no host call and changes nothing; it
\* never changes FinishedFrameCount.  A light-cache, prepass or rendering-image
\* line sets the status message and changes neither the progress nor
\* FinishedFrameCount.
C21_TwoPhaseProgress ==
    [][(Dispatched /\ Renderer = "vray")
          => /\ IsVrayPercent(line')
                   => /\ fired'.handler = "HandleVrayProgress"
                      /\ "SetProgress" \in calls'
                            <=> (vrayRenderingImage /\ FrameSpan # 0)
                      /\ "SetProgress" \notin calls'
                            => (calls' = {} /\ UNCHANGED <<plugin, host>>)
                      /\ UNCHANGED <<FinishedFrameCount, statusMessage, phase>>
             /\ IsVrayMessage(line')
                   => /\ fired'.handler = "HandleVrayMessage"
                      /\ calls' = {"SetStatusMessage"}
                      /\ UNCHANGED <<progress, FinishedFrameCount, phase>>]_vars

C21_Witness ==
    /\ log # <<>>
    /\ Renderer = "vray"
    /\ fired.handler = "HandleVrayProgress"
    /\ "N%" \in line.frags
    /\ ~vrayRenderingImage
    /\ calls = {}
    /\ FrameSpan # 0

\* The task's output so far holds a "V-Ray: Rendering image" line with no
\* "V-Ray: Total frame time" line after it.
InRenderImagePhase ==
    \E i \in 1..Len(log) :
        /\ Matches("V-Ray: Rendering image", log[i])
        /\ \A j \in (i + 1)..Len(log) :
              ~Matches("V-Ray: Total frame time", log[j])

\* C22: with renderer vray, from the start of a task on, the rendering-image
\* flag is true exactly when a "V-Ray: Rendering image" line has been seen
\* since the task started with no "V-Ray: Total frame time" line after it.
C22_FlagTracksPhase ==
    (Renderer = "vray" /\ phase \in {"prepared", "running", "checked"})
        => (vrayRenderingImage <=> InRenderImagePhase)

\* C23: a "writing image file (frame N)" line with N the recorded frame sets
\* the skip flag and leaves the recorded frame; with another N it records N
\* and nothing else.  A "rendering finished" line seen with the flag set
\* clears the flag and leaves FinishedFrameCount and the progress; seen with
\* the flag clear it increments FinishedFrameCount by one.
C23_SkipFlagOneShot ==
    [][Dispatched
          => /\ IsWritingFrame(line')
                   => /\ fired'.handler = "HandleMentalRayWritingFrame"
                      /\ calls' = {}
                      /\ UNCHANGED <<FinishedFrameCount, host, phase>>
                      /\ line'.a = PreviousFinishedFrame
                            => (SkipNextFrame' /\ UNCHANGED PreviousFinishedFrame)
                      /\ line'.a # PreviousFinishedFrame
                            => /\ PreviousFinishedFrame' = line'.a
                               /\ UNCHANGED SkipNextFrame
             /\ IsRenderingFinished(line')
                   => /\ fired'.handler = "HandleMentalRayComplete"
                      /\ ~SkipNextFrame'
                      /\ UNCHANGED PreviousFinishedFrame
                      /\ SkipNextFrame
                            => (calls' = {} /\ UNCHANGED <<FinishedFrameCount, host>>)
                      /\ ~SkipNextFrame
                            => FinishedFrameCount' = FinishedFrameCount + 1]_vars

\* Writing frame N twice, then two "rendering finished" lines: the first
\* takes the flag, the second is counted.
C23_Witness ==
    /\ Len(log) = 4
    /\ IsWritingFrame(log[1])
    /\ IsWritingFrame(log[2])
    /\ log[1].a = log[2].a
    /\ IsRenderingFinished(log[3])
    /\ IsRenderingFinished(log[4])
    /\ ~SkipNextFrame
    /\ FinishedFrameCount = 1

\* The handlers that report the percent of the current frame.
SubFrameHandlers ==
    {"HandleProgressMessage1", "HandleMentalRayProgress", "HandleVrayProgress"}

\* Ten times the percent printed on the line: digits for the generic and the
\* V-Ray lines, a decimal for Mental Ray's.
SubPercentTenths(m, l) ==
    IF m.handler = "HandleMentalRayProgress" THEN 10 * l.a + l.b ELSE 10 * l.a

\* C24: when a generic percent line, a Mental Ray "rendered" line or a V-Ray
\* percent line of the rendering-image phase is handled in a task of
\* n = end-start+1 frames, the progress set is
\* (subPercent + FinishedFrameCount*100) / n if n # 0, and no progress is set
\* if n = 0; FinishedFrameCount is unchanged.
C24_SubFrameFormula ==
    [][(/\ Dispatched
        /\ fired'.handler \in SubFrameHandlers
        /\ fired'.handler = "HandleVrayProgress" => vrayRenderingImage)
          => /\ UNCHANGED FinishedFrameCount
             /\ FrameSpan # 0
                   => /\ "SetProgress" \in calls'
                      /\ progress'[1] * 10 * FrameSpan
                            = progress'[2] * (SubPercentTenths(fired', line')
                                              + 1000 * FinishedFrameCount)
             /\ FrameSpan = 0
                   => (calls' = {} /\ UNCHANGED progress)]_vars

\* 50.5% of the second of two frames: (50.5 + 100) / 2 = 75.25.
C24_Witness ==
    /\ log # <<>>
    /\ fired.handler = "HandleMentalRayProgress"
    /\ FinishedFrameCount = 1
    /\ FrameSpan = 2
    /\ progress = <<301, 4>>

\* The number on the last line of the output so far that matches pat; the
\* class attribute's 0 when there is none.
LastValue(pat) ==
    LET at == {i \in 1..Len(log) : Matches(pat, log[i])}
    IN  IF at = {} THEN 0
        ELSE log[CHOOSE i \in at : \A j \in at : i >= j].a

\* C25 as stated: on a "Rendered to pass P" line with totalPasses > 0 and
\* totalFrameCount # 0 the progress is the exact quotient
\* (100*P/totalPasses + currentFrameOffset*100) / totalFrameCount.
C25_ExactPassQuotient ==
    (/\ log # <<>>
     /\ fired.handler = "HandleCausticVisualizerCurrentPass"
     /\ CausticTotalPasses > 0
     /\ FrameSpan # 0)
        => progress[1] * CausticTotalPasses * FrameSpan
              = progress[2] * (100 * line.a
                               + (CausticCurrentFrame - StartFrame) * 100
                                 * CausticTotalPasses)

\* C25, amended: with renderer causticvisualizer, T the number on the last
\* "Rendering T passes" line printed so far and F the number on the last
\* "Executing frame" line (0 without such a line), a "Rendered to pass P" line
\* sets the progress to (q + (F-start)*100) / (end-start+1), q the integer
\* part of 100*P/T, when T > 0 and end-start+1 # 0, and makes no host call
\* otherwise.  The other two lines make no host call.
C25_PassProgress ==
    [][(Dispatched /\ Renderer = "causticvisualizer")
          => LET T == LastValue("Rendering N passes")
                 F == LastValue("Executing frame N")
                 q == (100 * line'.a) \div T
             IN  /\ Matches("Rendered to pass N", line')
                       => /\ fired'.handler = "HandleCausticVisualizerCurrentPass"
                          /\ UNCHANGED <<plugin, statusMessage, phase>>
                          /\ IF T > 0 /\ FrameSpan # 0
                             THEN /\ calls' = {"SetProgress"}
                                  /\ progress'[1] * FrameSpan
                                        = progress'[2] * (q + (F - StartFrame) * 100)
                             ELSE calls' = {} /\ UNCHANGED progress
                 /\ (\/ Matches("Rendering N passes", line')
                     \/ Matches("Executing frame N", line'))
                       => /\ fired'.handler \in CausticFamily
                          /\ calls' = {}
                          /\ UNCHANGED <<host, phase, FinishedFrameCount>>]_vars

\* Pass 1 of 3 of the second of two frames: (33 + 100) / 2.
C25_Witness ==
    /\ Len(log) = 3
    /\ fired.handler = "HandleCausticVisualizerCurrentPass"
    /\ line.a = 1
    /\ CausticTotalPasses = 3
    /\ CausticCurrentFrame - StartFrame = 1
    /\ FrameSpan = 2
    /\ progress = <<133, 2>>

\* The rule belongs to a handler that reports a status only: the two Maya
\* status lines, Mental Ray's final gather points, V-Ray's light cache and
\* prepass.
StatusOnly(m) ==
    \/ m.handler \in {"HandleStatusMessage", "HandleMentalRayGathering"}
    \/ /\ m.handler = "HandleVrayMessage"
       /\ m.pat \in {"V-Ray: Building light cache", "V-Ray: Prepass N of N"}

\* C26: a line handled by a status-only handler sets the status message and
\* makes no other host call; no plugin field, FinishedFrameCount included,
\* and no progress changes, and the task goes on.
C26_StatusOnly ==
    [][(Dispatched /\ StatusOnly(fired'))
          => /\ calls' = {"SetStatusMessage"}
             /\ statusMessage' # NoText
             /\ UNCHANGED <<plugin, progress, failReason, phase>>]_vars

\* A final-gather line after a frame has been counted.
C26_Witness ==
    /\ Len(log) = 2
    /\ fired.handler = "HandleMentalRayGathering"
    /\ statusMessage = TextOf(line)
    /\ FinishedFrameCount = 1
    /\ progress = <<50, 1>>

\* C27: with renderer vrayexport, a "V-Ray: Render complete" line sets the
\* progress to 100 and leaves FinishedFrameCount, 0 before the task's first
\* line, as it is.
C27_RenderCompleteSets100 ==
    (/\ Len(log) = 1
     /\ Renderer = "vrayexport"
     /\ Matches("V-Ray: Render complete", line))
        => /\ progress = FromInt(100)
           /\ FinishedFrameCount = 0

\* C28: while Mental Ray prints every frame of the task twice, each frame is
\* counted once, at its first "rendering finished" line, and the progress is
\* the share of the frames counted; after the last frame FinishedFrameCount
\* is the number of frames and the progress is 100.
C28_EveryFrameCountedOnce ==
    phase = "running"
        => /\ FinishedFrameCount = (Len(log) + 2) \div 4
           /\ Len(log) >= 2
                 => progress[1] * FrameSpan
                       = progress[2] * 100 * FinishedFrameCount
           /\ Len(log) = 4 * FrameSpan
                 => /\ FinishedFrameCount = EndFrame - StartFrame + 1
                    /\ progress = FromInt(100)
                    /\ ~SkipNextFrame

C28_Witness ==
    /\ phase = "running"
    /\ StartFrame = 2
    /\ EndFrame = 4
    /\ Len(log) = 12
    /\ PreviousFinishedFrame = 4
    /\ FinishedFrameCount = 3
    /\ progress = FromInt(100)

\* C29: while the renderer reports the frames of a task with start <= end in
\* order, no value handed to SetProgress is below the one handed over before
\* it, whether the completion lines carry frame numbers or not.
C29_ProgressNeverDecreases ==
    [][(Dispatched /\ StartFrame <= EndFrame /\ "SetProgress" \in calls')
          => progress[1] * progress'[2] <= progress'[1] * progress[2]]_vars

\* A "Finished Rendering" line that carries a frame number.
IsNumberedCompletion(l) == {"Finished Rendering", ".N.ext"} \subseteq l.frags

\* C30 as stated: a "Finished Rendering" line with a frame number is handled
\* by the by-frame-number rule, which sets the progress.
C30_NumberedLineSetsProgress ==
    (log # <<>> /\ IsNumberedCompletion(line))
        => /\ fired.handler = "HandleChunkedProgress1"
           /\ "SetProgress" \in calls

\* C30, amended: such a line is handled by the by-frame-number rule and by no
\* other; no plugin field changes, FinishedFrameCount included; in a task with
\* end-start+1 # 0 the one host call sets the progress to the integer part of
\* 100*(f-start+1)/(end-start+1), and in a task with end-start+1 = 0 there is
\* no host call and the progress stays.
C30_NumberedLineHandledOnce ==
    [][(Dispatched /\ IsNumberedCompletion(line'))
          => LET x == 100 * (line'.a - StartFrame + 1)
                 q == progress'[1]
             IN  /\ fired'.handler = "HandleChunkedProgress1"
                 /\ UNCHANGED <<plugin, statusMessage, failReason, phase>>
                 /\ FrameSpan > 0
                       => /\ calls' = {"SetProgress"}
                          /\ progress'[2] = 1
                          /\ q * FrameSpan <= x
                          /\ x < (q + 1) * FrameSpan
                 /\ FrameSpan < 0
                       => /\ calls' = {"SetProgress"}
                          /\ progress'[2] = 1
                          /\ q * FrameSpan >= x
                          /\ x > (q + 1) * FrameSpan
                 /\ FrameSpan = 0
                       => (calls' = {} /\ UNCHANGED progress)]_vars

\* A completion without a frame number, then the completion of frame 2 of
\* the task 1..2: the count stays at 1.
C30_Witness ==
    /\ Len(log) = 2
    /\ ~IsNumberedCompletion(log[1])
    /\ IsNumberedCompletion(log[2])
    /\ StartFrame = 1
    /\ EndFrame = 2
    /\ line.a = 2
    /\ FinishedFrameCount = 1
    /\ progress = FromInt(100)
=============================================================================
